---- MODULE Spec2Model ----
(***************************************************************************)
(* Model of src/etherscan.ts: submitSources, the batch driver that submits  *)
(* the sources of every deployment to a block explorer, with its nested     *)
(* per-contract pipeline submit and the status poller checkStatus.          *)
(* One action per stretch of code between two awaits: a request is sent at  *)
(* the end of one action and its answer is handled by the next. Every HTTP  *)
(* call is taken to return an answer. The exceptions modelled are the       *)
(* SyntaxError of JSON.parse on an unparseable metadata string (line 173)   *)
(* and the error of defaultAbiCoder.encode on arguments that do not match   *)
(* the constructor (line 287); nothing catches them and they reject the     *)
(* promise of submitSources.                                                *)
(* A JavaScript object is a function on its keys; a text is modelled by     *)
(* what the code reads from it.                                             *)
(***************************************************************************)
EXTENDS Integers, Sequences, FiniteSets, TLC

VARIABLES
    chainId,              \* hre.getChainId()
    all,                  \* hre.deployments.all(): sequence of deployment records, in key order
    licenseOption,        \* config.license
    forceLicense,         \* config.forceLicense
    fallbackOnSolcInput,  \* config.fallbackOnSolcInput
    etherscanApiKey,      \* config.etherscanApiKey
    host,                 \* the explorer host chosen by the switch
    pc,                   \* where submitSources is suspended
    idx,                  \* position of the for loop in Object.keys(all)
    cur,                  \* the locals of the running (or last) call of submit
    answer,               \* the explorer's answer that was handled last
    started,              \* per name: times the for loop called submit(name)
    posts,                \* per name: verifysourcecode POSTs issued
    outcomes,             \* how each call of submit for the current name ended, in order
    active,               \* names whose call of submit has not returned yet
    logged,               \* the payload copies logged by checkStatus for the current name
    hostsUsed,            \* hosts an HTTP request was sent to
    netError              \* the "Network ... not supported" error was logged

vars == <<chainId, all, licenseOption, forceLicense, fallbackOnSolcInput, etherscanApiKey,
          host, pc, idx, cur, answer, started, posts, outcomes, active, logged, hostsUsed,
          netError>>

config == <<chainId, all, licenseOption, forceLicense, fallbackOnSolcInput, etherscanApiKey>>

----------------------------------------------------------------------------
(* Bounds *)

NumDeployments == 2     \* deployment names in the collection
MaxPolls == 3           \* status polls followed per attempt

----------------------------------------------------------------------------
(* JavaScript values *)

Undefined == "<undefined>"

\* !s for a string or undefined
Falsy(s) == s \in {Undefined, ""}

\* the text of a contract ABI
AbiText == "[{\"type\":\"constructor\"}]"

\* JSON.parse of a response text (line 156): the parsed value, or a SyntaxError
JSONParse(text) ==
    CASE text = AbiText -> [threw |-> FALSE, value |-> "abi"]
      [] text = "[]"    -> [threw |-> FALSE, value |-> "emptyArray"]
      [] text = "\"\""  -> [threw |-> FALSE, value |-> ""]
      [] OTHER          -> [threw |-> TRUE,  value |-> Undefined]

\* {}
EmptyObject == [k \in {} |-> ""]

----------------------------------------------------------------------------
(* License extractor and table *)

RECURSIVE extractLicenseFromSources(_)
\* the distinct SPDX identifiers of a source text, in order of first appearance;
\* a source text is modelled by the sequence of identifiers its comments match
extractLicenseFromSources(matches) ==
    IF matches = <<>> THEN <<>>
    ELSE LET init == extractLicenseFromSources(SubSeq(matches, 1, Len(matches) - 1))
             last == matches[Len(matches)]
         IN  IF \E i \in 1..Len(init) : init[i] = last THEN init ELSE Append(init, last)

extractOneLicenseFromSourceFile(source) ==
    LET licenses == extractLicenseFromSources(source)
    IN  IF Len(licenses) = 0 THEN Undefined ELSE licenses[1]

\* getLicenseType with Apache-2.0 given the code of OSL-3.0
getLicenseTypeCollision(license) ==
    CASE license = "None"         -> 1
      [] license = "UNLICENSED"   -> 2
      [] license = "MIT"          -> 3
      [] license = "GPL-2.0"      -> 4
      [] license = "GPL-3.0"      -> 5
      [] license = "LGPL-2.1"     -> 6
      [] license = "LGPL-3.0"     -> 7
      [] license = "BSD-2-Clause" -> 8
      [] license = "BSD-3-Clause" -> 9
      [] license = "MPL-2.0"      -> 10
      [] license = "OSL-3.0"      -> 11
      [] license = "Apache-2.0"   -> 11
      [] license = "AGPL-3.0"     -> 13
      [] OTHER                    -> 0

\* 0 stands for undefined (both are falsy)
getLicenseType(license) ==
    CASE license = "None"         -> 1
      [] license = "UNLICENSED"   -> 2
      [] license = "MIT"          -> 3
      [] license = "GPL-2.0"      -> 4
      [] license = "GPL-3.0"      -> 5
      [] license = "LGPL-2.1"     -> 6
      [] license = "LGPL-3.0"     -> 7
      [] license = "BSD-2-Clause" -> 8
      [] license = "BSD-3-Clause" -> 9
      [] license = "MPL-2.0"      -> 10
      [] license = "OSL-3.0"      -> 11
      [] license = "Apache-2.0"   -> 12
      [] license = "AGPL-3.0"     -> 13
      [] OTHER                    -> 0

\* ResolveLicense with the source license winning a forced mismatch
ResolveLicenseSourceWins(sourceLicenseType, option, force) ==
    LET differs == ~Falsy(option) /\ option # sourceLicenseType
        license == IF Falsy(sourceLicenseType) THEN option ELSE sourceLicenseType
        licenseType == getLicenseType(license)
    IN  CASE Falsy(sourceLicenseType) /\ Falsy(option) ->
                [error |-> "MissingLicense", license |-> license, licenseType |-> 0]
          [] ~Falsy(sourceLicenseType) /\ differs /\ ~force ->
                [error |-> "LicenseMismatch", license |-> license, licenseType |-> 0]
          [] OTHER ->
                IF licenseType = 0
                THEN [error |-> "UnsupportedLicense", license |-> license, licenseType |-> 0]
                ELSE [error |-> "", license |-> license, licenseType |-> licenseType]

\* lines 196-226 of submit: the effective license and its code, or the error logged
ResolveLicense(sourceLicenseType, option, force) ==
    LET differs == ~Falsy(option) /\ option # sourceLicenseType
        license == IF Falsy(sourceLicenseType) \/ differs THEN option ELSE sourceLicenseType
        licenseType == getLicenseType(license)
    IN  CASE Falsy(sourceLicenseType) /\ Falsy(option) ->
                [error |-> "MissingLicense", license |-> license, licenseType |-> 0]
          [] ~Falsy(sourceLicenseType) /\ differs /\ ~force ->
                [error |-> "LicenseMismatch", license |-> license, licenseType |-> 0]
          [] OTHER ->
                IF licenseType = 0
                THEN [error |-> "UnsupportedLicense", license |-> license, licenseType |-> 0]
                ELSE [error |-> "", license |-> license, licenseType |-> licenseType]

----------------------------------------------------------------------------
(* Host table *)

\* HostOf without the case of chain 256
HostOfNoHecoTestnet(id) ==
    CASE id = "1"   -> "http://api.etherscan.io"
      [] id = "3"   -> "http://api-ropsten.etherscan.io"
      [] id = "4"   -> "http://api-rinkeby.etherscan.io"
      [] id = "5"   -> "http://api-goerli.etherscan.io"
      [] id = "42"  -> "http://api-kovan.etherscan.io"
      [] id = "97"  -> "https://api-testnet.bscscan.com"
      [] id = "56"  -> "https://api.bscscan.com"
      [] id = "128" -> "https://api.hecoinfo.com"
      [] OTHER      -> Undefined

\* the switch of lines 114-144; Undefined for the default branch
HostOf(id) ==
    CASE id = "1"   -> "http://api.etherscan.io"
      [] id = "3"   -> "http://api-ropsten.etherscan.io"
      [] id = "4"   -> "http://api-rinkeby.etherscan.io"
      [] id = "5"   -> "http://api-goerli.etherscan.io"
      [] id = "42"  -> "http://api-kovan.etherscan.io"
      [] id = "97"  -> "https://api-testnet.bscscan.com"
      [] id = "56"  -> "https://api.bscscan.com"
      [] id = "128" -> "https://api.hecoinfo.com"
      [] id = "256" -> "https://api-testnet.hecoinfo.com"
      [] OTHER      -> Undefined

----------------------------------------------------------------------------
(* Inputs: the deployment records and the explorer's answers *)

Files == {"A.sol", "B.sol"}

\* a deployment's metadata string: absent, unparseable, or the parsed JSON:
\* language, settings (with compilationTarget, its keys in order, when hasTarget;
\* hasCompilationTarget and compilationTarget are what line 174 reads),
\* compiler.version and
\* sources, the content of each being the SPDX identifiers its comments match
Metadata(hasTarget, targets, spdx) ==
    [present |-> TRUE, parses |-> TRUE,
     language |-> "Solidity",
     compilerVersion |-> "0.7.6+commit.7338295f",
     hasCompilationTarget |-> hasTarget, compilationTarget |-> targets,
     settings |-> IF hasTarget
                  THEN [compilationTarget |-> targets, optimizer |-> "runs:200",
                        evmVersion |-> "istanbul"]
                  ELSE [optimizer |-> "runs:200", evmVersion |-> "istanbul"],
     sources |-> [f \in Files |->
                    [content |-> IF f = "A.sol" THEN spdx ELSE <<"GPL-3.0">>,
                     keccak256 |-> "0x1234", urls |-> "bzz-raw://"]]]

NoMetadata == [Metadata(FALSE, <<>>, <<>>) EXCEPT !.present = FALSE]

BadMetadata == [Metadata(FALSE, <<>>, <<>>) EXCEPT !.parses = FALSE]

OneTarget == << <<"A.sol", "Foo">> >>

\* settings.libraries as found in a metadata string or a solc input file
\* before the deployment's libraries are added: none for this contract, and
\* some for this contract (one of them under the name of a deployment's library)
OtherLibraries == <<"B.sol", "Bar">> :> [L9 |-> "0x999"]

OwnLibraries ==
    (<<"A.sol", "Foo">> :> [L1 |-> "0x0ld", L3 |-> "0xccc"]) @@ OtherLibraries

\* JSON.parse of the text of a solc input file (line 247)
ParseSolcInput(text) ==
    LET input(settings) ==
            [language |-> "Solidity", settings |-> settings,
             sources |-> [f \in Files \cup {"C.sol"} |-> [content |-> f]]]
    IN  CASE text = "{input,libraries:{}}" ->
                input([optimizer |-> "runs:200", libraries |-> EmptyObject])
          [] text = "{input,libraries:{B.sol:Bar}}" ->
                input([optimizer |-> "runs:200", libraries |-> OtherLibraries])
          [] text = "{input,libraries:{A.sol:Foo,B.sol:Bar}}" ->
                input([optimizer |-> "runs:200", libraries |-> OwnLibraries])
          [] OTHER -> input([optimizer |-> "runs:200"])

\* solcInput: the text of <solcInputsPath>/<solcInputHash>.json, "" when it cannot be read;
\* libraries: the entries of deployment.libraries in key order, when it has any;
\* args: the constructor arguments, when it has any; abi: the entries of the ABI
DeploymentWithLibraries(metadata, solcInput, hasLibraries, libraries) ==
    [address |-> "0xc0ffee", metadata |-> metadata, solcInput |-> solcInput,
     hasLibraries |-> hasLibraries, libraries |-> libraries,
     hasArgs |-> FALSE, args |-> <<>>,
     abi |-> << [type |-> "function", inputs |-> <<"address">>] >>]

\* a deployment with constructor arguments
WithArgs(deployment, args, abi) ==
    [deployment EXCEPT !.hasArgs = TRUE, !.args = args, !.abi = abi]

Deployment(metadata, solcInput) ==
    DeploymentWithLibraries(metadata, solcInput, FALSE, <<>>)

Deployments ==
    { Deployment(NoMetadata, "{input}"),
      Deployment(BadMetadata, "{input}"),
      Deployment(Metadata(FALSE, <<>>, <<"MIT">>), "{input}"),
      Deployment(Metadata(TRUE, <<>>, <<"MIT">>), "{input}"),
      Deployment(Metadata(TRUE, << <<"A.sol", "Foo">>, <<"B.sol", "Bar">> >>, <<"MIT">>),
                 "{input}"),
      Deployment(Metadata(TRUE, OneTarget, <<>>), ""),
      Deployment(Metadata(TRUE, OneTarget, <<"MIT", "GPL-3.0", "MIT">>), "{input}"),
      Deployment(Metadata(TRUE, OneTarget, <<"WTFPL">>), "{input}") }

LicenseOptions == {Undefined, "MIT", "GPL-3.0", "WTFPL"}

\* deployments without libraries, arguments and solc input file
PlainDeployments ==
    { Deployment(Metadata(TRUE, OneTarget, <<"MIT">>), ""),
      Deployment([Metadata(TRUE, OneTarget, <<"MIT">>) EXCEPT !.language = "Yul"], "") }

\* an ABI with a constructor of the given parameter types, and one without
AbiWith(inputs) ==
    << [type |-> "function", inputs |-> <<"address">>],
       [type |-> "constructor", inputs |-> inputs] >>

AbiWithout == << [type |-> "function", inputs |-> <<"address">>] >>

\* deployments with constructor arguments: two that match the constructor,
\* none for a constructor without parameters, one without a constructor in
\* the ABI, and one too few for the constructor
ArgsDeployments ==
    LET deployment == Deployment(Metadata(TRUE, OneTarget, <<"MIT">>), "{input}")
    IN  { WithArgs(deployment, <<"42", "0xdead">>, AbiWith(<<"uint256", "address">>)),
          WithArgs(deployment, <<>>, AbiWith(<<>>)),
          WithArgs(deployment, <<"42">>, AbiWithout),
          WithArgs(deployment, <<"42">>, AbiWith(<<"uint256", "address">>)) }

\* config.etherscanApiKey, which is optional
ApiKeys == {Undefined, "KEY1", "KEY2"}

\* solc input files, by what their settings.libraries holds
SolcInputTexts ==
    {"{input}", "{input,libraries:{}}", "{input,libraries:{B.sol:Bar}}",
     "{input,libraries:{A.sol:Foo,B.sol:Bar}}"}

\* deployment.libraries: absent, empty, one and two libraries
LibraryChoices ==
    { [hasLibraries |-> FALSE, libraries |-> <<>>],
      [hasLibraries |-> TRUE, libraries |-> <<>>],
      [hasLibraries |-> TRUE, libraries |-> << <<"L1", "0xaaa">> >>],
      [hasLibraries |-> TRUE, libraries |-> << <<"L1", "0xaaa">>, <<"L2", "0xbbb">> >>] }

\* deployments of A.sol:Foo with libraries, compiled with the settings.libraries
\* that the solc input file holds
LibraryDeployments ==
    { DeploymentWithLibraries(
          [Metadata(TRUE, OneTarget, <<"MIT">>) EXCEPT
              !.settings = ParseSolcInput(text).settings @@ @],
          text, choice.hasLibraries, choice.libraries) :
      text \in SolcInputTexts, choice \in LibraryChoices }

\* strings given as config.license or found in a source: the ones of the
\* explorer's table and some that are not in it
LicenseStrings ==
    {"None", "UNLICENSED", "MIT", "GPL-2.0", "GPL-3.0", "LGPL-2.1", "LGPL-3.0",
     "BSD-2-Clause", "BSD-3-Clause", "MPL-2.0", "OSL-3.0", "Apache-2.0", "AGPL-3.0",
     "WTFPL", "mit", "Apache", "GPL-3.0-or-later", ""}

ChainIds == {"1", "3", "4", "5", "42", "56", "97", "128", "256", "999", "31337"}

AbiResponses ==
    { [status |-> "0", result |-> "Contract source code not verified"],
      [status |-> "0", result |-> AbiText],
      [status |-> "1", result |-> AbiText],
      [status |-> "1", result |-> "[]"],
      [status |-> "1", result |-> "\"\""],
      [status |-> "1", result |-> "<html>"] }

SubmissionResponses ==
    { [status |-> "1", result |-> "abc123"],
      [status |-> "1", result |-> "def456"],
      [status |-> "1", result |-> ""],
      [status |-> "1", result |-> Undefined],
      [status |-> "0", result |-> "abc123"],
      [status |-> "0", result |-> Undefined] }

StatusResponses ==
    { [status |-> "1", result |-> "Pass - Verified"],
      [status |-> "1", result |-> "Pending in queue"],
      [status |-> "0", result |-> "Pending in queue"],
      [status |-> "0", result |-> "Fail - Unable to verify"] }

\* an answer with the request it answers: "getabi", "verifysourcecode" or "checkverifystatus"
Answer(action, data) == [action |-> action, status |-> data.status, result |-> data.result]

NoAnswer == [action |-> Undefined, status |-> Undefined, result |-> Undefined]

----------------------------------------------------------------------------
(* The per-contract pipeline: submit(name, useSolcInput) *)

Names == 1..NumDeployments

\* CheckExisting with the test of line 162 inverted
CheckExistingInverted(abiData) ==
    IF abiData.status # "0"
    THEN LET parsed == JSONParse(abiData.result)
         IN  IF parsed.threw THEN "malformed"
             ELSE IF Falsy(parsed.value) THEN "verified" ELSE "unverified"
    ELSE "unverified"

\* lines 153-165: "malformed" when JSON.parse throws, "verified" when the parsed
\* ABI is truthy, "unverified" otherwise
CheckExisting(abiData) ==
    IF abiData.status # "0"
    THEN LET parsed == JSONParse(abiData.result)
         IN  IF parsed.threw THEN "malformed"
             ELSE IF ~Falsy(parsed.value) THEN "verified" ELSE "unverified"
    ELSE "unverified"

\* ExtractTarget taking the last key of compilationTarget
ExtractTargetLast(metadata) ==
    IF metadata.hasCompilationTarget /\ Len(metadata.compilationTarget) > 0
    THEN [contractFilepath |-> metadata.compilationTarget[Len(metadata.compilationTarget)][1],
          contractName |-> metadata.compilationTarget[Len(metadata.compilationTarget)][2]]
    ELSE [contractFilepath |-> Undefined, contractName |-> Undefined]

\* lines 174-187: the first key of compilationTarget and its value
ExtractTarget(metadata) ==
    IF metadata.hasCompilationTarget /\ Len(metadata.compilationTarget) > 0
    THEN [contractFilepath |-> metadata.compilationTarget[1][1],
          contractName |-> metadata.compilationTarget[1][2]]
    ELSE [contractFilepath |-> Undefined, contractName |-> Undefined]

\* lines 269-275: the loop over the deployment's libraries, adding each to
\* settings.libraries[contractNamePath]
RECURSIVE AddLibraries(_, _, _)
AddLibraries(settingsLibraries, libraries, contractNamePath) ==
    IF libraries = <<>> THEN settingsLibraries
    ELSE LET libraryName == libraries[1][1]
             under == IF contractNamePath \in DOMAIN settingsLibraries
                      THEN settingsLibraries[contractNamePath]
                      ELSE EmptyObject
         IN  AddLibraries(
                 (contractNamePath :> ((libraryName :> libraries[1][2]) @@ under))
                     @@ settingsLibraries,
                 Tail(libraries), contractNamePath)

\* MergeLibraries starting from an empty settings.libraries
MergeLibrariesOverwrite(settings, hasLibraries, libraries, contractNamePath) ==
    IF ~hasLibraries THEN settings
    ELSE ("libraries" :> AddLibraries(EmptyObject, libraries, contractNamePath)) @@ settings

\* lines 266-276: solcInput.settings after the deployment's libraries are merged in
MergeLibraries(settings, hasLibraries, libraries, contractNamePath) ==
    IF ~hasLibraries THEN settings
    ELSE LET settingsLibraries == IF "libraries" \in DOMAIN settings
                                  THEN settings["libraries"]
                                  ELSE EmptyObject
         IN  ("libraries" :> AddLibraries(settingsLibraries, libraries, contractNamePath))
                 @@ settings

\* CompilerInput with the settings and the source entries of the metadata as they are
CompilerInputAsIs(deployment, useSolcInput) ==
    IF useSolcInput
    THEN ParseSolcInput(deployment.solcInput)
    ELSE [language |-> deployment.metadata.language,
          settings |-> deployment.metadata.settings,
          sources |-> deployment.metadata.sources]

\* lines 247-263: the compiler input before the libraries are added, read from
\* the solc input file or built from the metadata
CompilerInput(deployment, useSolcInput) ==
    IF useSolcInput
    THEN ParseSolcInput(deployment.solcInput)
    ELSE LET metadata == deployment.metadata
         IN  [language |-> metadata.language,
              settings |-> [k \in DOMAIN metadata.settings \ {"compilationTarget"} |->
                               metadata.settings[k]],
              sources |-> [sourcePath \in DOMAIN metadata.sources |->
                              [content |-> metadata.sources[sourcePath].content]]]

\* lines 233-277: the object that is serialized as sourceCode
SolcInput(deployment, useSolcInput, contractNamePath) ==
    LET solcInput == CompilerInput(deployment, useSolcInput)
    IN  [solcInput EXCEPT !.settings = MergeLibraries(@, deployment.hasLibraries,
                                                      deployment.libraries, contractNamePath)]

NoSolcInput == [language |-> Undefined, settings |-> EmptyObject, sources |-> EmptyObject]

\* defaultAbiCoder.encode(inputs, args): "0x" followed by one word per argument;
\* it throws when the numbers of types and of values differ
Encode(inputs, args) ==
    IF Len(inputs) # Len(args)
    THEN [threw |-> TRUE, value |-> <<>>]
    ELSE [threw |-> FALSE,
          value |-> <<"0x">> \o [i \in 1..Len(args) |-> <<inputs[i], args[i]>>]]

\* lines 283-285: the first entry of the ABI of type constructor, if any
FindConstructor(abi) ==
    LET found == {i \in 1..Len(abi) : abi[i].type = "constructor"}
    IN  IF found = {} THEN [found |-> FALSE, inputs |-> <<>>]
        ELSE [found |-> TRUE,
              inputs |-> abi[CHOOSE i \in found : \A j \in found : i <= j].inputs]

NoArguements == [defined |-> FALSE, threw |-> FALSE, value |-> <<>>]

\* lines 281-293: constructorArguements, left undefined without args or
\* without a constructor in the ABI
ConstructorArguements(deployment) ==
    LET constructor == FindConstructor(deployment.abi)
        encoded == Encode(constructor.inputs, deployment.args)
    IN  IF deployment.hasArgs /\ constructor.found
        THEN IF encoded.threw THEN [NoArguements EXCEPT !.threw = TRUE]
             ELSE [defined |-> TRUE, threw |-> FALSE, value |-> Tail(encoded.value)]
        ELSE NoArguements

NoPostData ==
    [apikey |-> Undefined, contractaddress |-> Undefined,
     contractname |-> <<Undefined, Undefined>>, compilerversion |-> <<"v", Undefined>>,
     constructorArguements |-> NoArguements, licenseType |-> 0, sourceCode |-> NoSolcInput]

\* checkStatus logging the payload as it was sent
DiagnosticCopyUnredacted(postData) == postData

\* lines 357-374: the copy of the payload that checkStatus logs on a failure
DiagnosticCopy(postData) ==
    [apikey |-> "XXXXXX",
     contractaddress |-> postData.contractaddress,
     sourceCode |-> "...",
     contractname |-> postData.contractname,
     compilerversion |-> postData.compilerversion,
     constructorArguements |-> postData.constructorArguements,
     licenseType |-> postData.licenseType]

\* PostData with the constructor arguments left out of a full-input submission
PostDataArgsInMetadataMode(deployment, useSolcInput, contractNamePath, licenseType) ==
    [apikey |-> etherscanApiKey,
     contractaddress |-> deployment.address,
     sourceCode |-> SolcInput(deployment, useSolcInput, contractNamePath),
     contractname |-> contractNamePath,
     compilerversion |-> <<"v", deployment.metadata.compilerVersion>>,
     constructorArguements |->
        IF useSolcInput THEN NoArguements ELSE ConstructorArguements(deployment),
     licenseType |-> licenseType]

\* lines 295-308: the fields of the POST that are not fixed strings;
\* contractname and compilerversion are kept as the parts of their template
PostData(deployment, useSolcInput, contractNamePath, licenseType) ==
    [apikey |-> etherscanApiKey,
     contractaddress |-> deployment.address,
     sourceCode |-> SolcInput(deployment, useSolcInput, contractNamePath),
     contractname |-> contractNamePath,
     compilerversion |-> <<"v", deployment.metadata.compilerVersion>>,
     constructorArguements |-> ConstructorArguements(deployment),
     licenseType |-> licenseType]

\* lines 167-308: the local steps between the getabi answer and the POST; error is
\* the reason submit returns early ("" when the payload is built, "threw" when
\* JSON.parse(metadataString) or the encoding of the arguments throws)
BuildPayload(deployment, useSolcInput) ==
    LET metadata == deployment.metadata
        target == ExtractTarget(metadata)
        resolved == ResolveLicense(
            extractOneLicenseFromSourceFile(metadata.sources[target.contractFilepath].content),
            licenseOption, forceLicense)
        rejected(why) == [error |-> why, postData |-> NoPostData]
    IN  CASE ~metadata.present -> rejected("MissingMetadata")
          [] metadata.present /\ ~metadata.parses -> rejected("threw")
          [] OTHER ->
             IF Falsy(target.contractFilepath) \/ Falsy(target.contractName)
             THEN rejected("MissingTarget")
             ELSE IF resolved.error # "" THEN rejected(resolved.error)
             ELSE IF useSolcInput /\ Falsy(deployment.solcInput)
             THEN rejected("MissingSolcInput")
             ELSE IF ConstructorArguements(deployment).threw
             THEN rejected("threw")
             ELSE [error |-> "",
                   postData |-> PostData(deployment, useSolcInput,
                                         <<target.contractFilepath, target.contractName>>,
                                         resolved.licenseType)]

\* lines 318-321: the guid of an accepted submission, Undefined for a rejected one
SubmissionGuid(submissionData) ==
    IF submissionData.status = "1" THEN submissionData.result ELSE Undefined

\* SubmissionError without the guid test of line 329
SubmissionErrorNoGuidTest(submissionData) ==
    IF submissionData.status # "1" THEN "SubmissionRejected" ELSE ""

\* lines 319-332: why submit returns after the POST, "" when it goes on to poll
SubmissionError(submissionData) ==
    IF submissionData.status # "1" THEN "SubmissionRejected"
    ELSE IF Falsy(SubmissionGuid(submissionData)) THEN "NoGuid"
    ELSE ""

\* checkStatus giving up on a job that is still pending
checkStatusGivesUp(statusData) ==
    IF statusData.status = "1" THEN "success" ELSE "failure"

\* checkStatus with the tests of lines 347 and 350 swapped
checkStatusPendingFirst(statusData) ==
    IF statusData.result = "Pending in queue" THEN ""
    ELSE IF statusData.status = "1" THEN "success"
    ELSE "failure"

\* lines 346-377: the result of one status poll ("" stands for undefined)
checkStatus(statusData) ==
    IF statusData.status = "1" THEN "success"
    ELSE IF statusData.result = "Pending in queue" THEN ""
    ELSE "failure"

\* ShouldFallback without the test of useSolcInput
ShouldFallbackAnyMode(useSolcInput) == fallbackOnSolcInput

\* ShouldFallback without the test of the option
ShouldFallbackWithoutOption(useSolcInput) == ~useSolcInput

\* ShouldFallback with the test of useSolcInput inverted
ShouldFallbackInverted(useSolcInput) == useSolcInput /\ fallbackOnSolcInput

\* line 392
ShouldFallback(useSolcInput) == ~useSolcInput /\ fallbackOnSolcInput

\* NextName skipping a name
NextNameSkipping(i) == i + 2

\* the for loop of line 405: the name after name i
NextName(i) == i + 1

\* Call with the mode argument dropped
CallMetadataMode(name, useSolcInput) ==
    [name |-> name, useSolcInput |-> FALSE, posted |-> FALSE,
     postData |-> NoPostData, guid |-> Undefined, polls |-> 0, pendings |-> 0,
     pollGuid |-> Undefined, result |-> ""]

\* the locals of a fresh call submit(name, useSolcInput)
Call(name, useSolcInput) ==
    [name |-> name, useSolcInput |-> useSolcInput, posted |-> FALSE,
     postData |-> NoPostData, guid |-> Undefined, polls |-> 0, pendings |-> 0,
     pollGuid |-> Undefined, result |-> ""]

\* how a call of submit ended, as logged
Ended(outcome, locals) ==
    Append(outcomes, [useSolcInput |-> locals.useSolcInput, outcome |-> outcome])

\* Return with a rejected submission thrown instead of logged
ReturnOrThrow(outcome, locals) ==
    /\ outcomes' = Ended(outcome, locals)
    /\ cur' = locals
    /\ IF outcome = "SubmissionRejected"
       THEN pc' = "thrown" /\ UNCHANGED <<idx, active>>
       ELSE pc' = "loop" /\ idx' = NextName(idx) /\ active' = active \ {locals.name}

\* Return with the full-input re-run made after any failed metadata-mode attempt
ReturnOrFallback(outcome, locals) ==
    IF outcome \notin {"Skipped", "Verified"} /\ ~locals.useSolcInput /\ fallbackOnSolcInput
    THEN /\ outcomes' = Ended(outcome, locals)
         /\ cur' = Call(locals.name, TRUE)
         /\ pc' = "getabi"
         /\ UNCHANGED <<idx, active>>
    ELSE /\ outcomes' = Ended(outcome, locals)
         /\ active' = active \ {locals.name}
         /\ cur' = locals
         /\ idx' = NextName(idx)
         /\ pc' = "loop"

\* submit returns (every nested call with it): the for loop goes on
Return(outcome, locals) ==
    /\ outcomes' = Ended(outcome, locals)
    /\ active' = active \ {locals.name}
    /\ cur' = locals
    /\ idx' = NextName(idx)
    /\ pc' = "loop"

----------------------------------------------------------------------------
(* Actions *)

\* lines 106-144: read the configuration, choose the host
ChooseHost ==
    /\ pc = "start"
    /\ IF HostOf(chainId) = Undefined
       THEN /\ netError' = TRUE
            /\ pc' = "done"
            /\ UNCHANGED host
       ELSE /\ host' = HostOf(chainId)
            /\ pc' = "loop"
            /\ UNCHANGED netError
    /\ UNCHANGED <<config, idx, cur, answer, started, posts, outcomes, active,
                   logged, hostsUsed>>

\* lines 405-406 and 146-151: the loop calls submit(name), which sends the getabi query
CallSubmit ==
    /\ pc = "loop"
    /\ idx <= Len(all)
    /\ started' = [started EXCEPT ![idx] = @ + 1]
    /\ active' = active \cup {idx}
    /\ cur' = Call(idx, FALSE)
    /\ answer' = NoAnswer
    /\ outcomes' = <<>>
    /\ logged' = <<>>
    /\ hostsUsed' = hostsUsed \cup {host}
    /\ pc' = "getabi"
    /\ UNCHANGED <<config, host, idx, posts, netError>>

\* lines 405-408: no name is left, submitSources returns
Finish ==
    /\ pc = "loop"
    /\ idx > Len(all)
    /\ pc' = "done"
    /\ UNCHANGED <<config, host, idx, cur, answer, started, posts, outcomes, active,
                   logged, hostsUsed, netError>>

\* lines 152-315: the getabi answer arrives; skip, reject locally, or send the POST
AbiResponse ==
    /\ pc = "getabi"
    /\ \E abiData \in AbiResponses :
        LET existing == CheckExisting(abiData)
            built == BuildPayload(all[cur.name], cur.useSolcInput)
        IN  /\ answer' = Answer("getabi", abiData)
            /\ IF existing = "malformed"
               THEN Return("MalformedAbi", cur) /\ UNCHANGED <<posts, hostsUsed>>
               ELSE IF existing = "verified"
               THEN Return("Skipped", cur) /\ UNCHANGED <<posts, hostsUsed>>
               ELSE IF built.error = "threw"
               THEN /\ pc' = "thrown"
                    /\ UNCHANGED <<cur, idx, outcomes, active, posts, hostsUsed>>
               ELSE IF built.error # ""
               THEN Return(built.error, cur) /\ UNCHANGED <<posts, hostsUsed>>
               ELSE /\ cur' = [cur EXCEPT !.posted = TRUE, !.postData = built.postData]
                    /\ posts' = [posts EXCEPT ![cur.name] = @ + 1]
                    /\ hostsUsed' = hostsUsed \cup {host}
                    /\ pc' = "posted"
                    /\ UNCHANGED <<idx, outcomes, active>>
    /\ UNCHANGED <<config, host, started, logged, netError>>

\* lines 316-332 and 380: the answer to the POST arrives
SubmissionResponse ==
    /\ pc = "posted"
    /\ \E submissionData \in SubmissionResponses :
        LET guid == SubmissionGuid(submissionData)
            locals == [cur EXCEPT !.guid = guid]
        IN  /\ answer' = Answer("verifysourcecode", submissionData)
            /\ IF SubmissionError(submissionData) # ""
               THEN Return(SubmissionError(submissionData), locals)
               ELSE /\ cur' = locals
                    /\ pc' = "polling"
                    /\ UNCHANGED <<idx, outcomes, active>>
    /\ UNCHANGED <<config, host, started, posts, logged, hostsUsed, netError>>

\* lines 382-402: after the delay, one status poll and what follows from its result
Poll ==
    /\ pc = "polling"
    /\ cur.polls < MaxPolls
    /\ \E statusData \in StatusResponses :
        LET result == checkStatus(statusData)
            locals == [cur EXCEPT !.polls = @ + 1, !.pollGuid = cur.guid, !.result = result,
                                  !.pendings = IF result = "" THEN @ + 1 ELSE @]
        IN  /\ answer' = Answer("checkverifystatus", statusData)
            /\ logged' = IF result = "failure"
                         THEN Append(logged, DiagnosticCopy(cur.postData))
                         ELSE logged
            /\ IF result = ""
               THEN /\ cur' = locals
                    /\ UNCHANGED <<pc, idx, outcomes, active>>
               ELSE IF result = "success"
               THEN Return("Verified", locals)
               ELSE IF ShouldFallback(cur.useSolcInput)
               THEN \* await submit(name, true): the nested call sends its getabi query
                    /\ outcomes' = Ended("Failed", locals)
                    /\ cur' = Call(cur.name, TRUE)
                    /\ pc' = "getabi"
                    /\ UNCHANGED <<idx, active>>
               ELSE Return("Failed", locals)
    /\ hostsUsed' = hostsUsed \cup {host}
    /\ UNCHANGED <<config, host, started, posts, netError>>

\* the state when submitSources is called
Started ==
    /\ host = Undefined
    /\ pc = "start"
    /\ idx = 1
    /\ cur = Call(0, FALSE)
    /\ answer = NoAnswer
    /\ started = [n \in Names |-> 0]
    /\ posts = [n \in Names |-> 0]
    /\ outcomes = <<>>
    /\ active = {}
    /\ logged = <<>>
    /\ hostsUsed = {}
    /\ netError = FALSE

\* every deployment record and option, on one supported and one unsupported chain
Init ==
    /\ chainId \in {"1", "999"}
    /\ all \in [Names -> Deployments]
    /\ licenseOption \in LicenseOptions
    /\ forceLicense \in BOOLEAN
    /\ fallbackOnSolcInput \in BOOLEAN
    /\ etherscanApiKey = "KEY1"
    /\ Started

\* every chain id, with two of the deployment records and no license option
InitChains ==
    /\ chainId \in ChainIds
    /\ all \in [Names -> {Deployment(NoMetadata, "{input}"),
                          Deployment(Metadata(TRUE, OneTarget, <<"MIT", "GPL-3.0", "MIT">>),
                                     "{input}")}]
    /\ licenseOption = Undefined
    /\ forceLicense = FALSE
    /\ fallbackOnSolcInput \in BOOLEAN
    /\ etherscanApiKey = "KEY1"
    /\ Started

Next ==
    \/ ChooseHost
    \/ CallSubmit
    \/ AbiResponse
    \/ SubmissionResponse
    \/ Poll
    \/ Finish

Spec == Init /\ [][Next]_vars

SpecChains == InitChains /\ [][Next]_vars

\* every license string as the option, with sources of no, a supported and an
\* unsupported license
InitLicenses ==
    /\ chainId = "1"
    /\ all \in [Names -> {Deployment(Metadata(TRUE, OneTarget, <<>>), "{input}"),
                          Deployment(Metadata(TRUE, OneTarget, <<"Apache-2.0">>), "{input}"),
                          Deployment(Metadata(TRUE, OneTarget, <<"WTFPL">>), "{input}")}]
    /\ licenseOption \in LicenseStrings \cup {Undefined}
    /\ forceLicense \in BOOLEAN
    /\ fallbackOnSolcInput = FALSE
    /\ etherscanApiKey = "KEY1"
    /\ Started

SpecLicenses == InitLicenses /\ [][Next]_vars

\* the first deployment with every choice of libraries, of settings.libraries,
\* of constructor arguments and of API key, with and without a forced license
InitInputs ==
    /\ chainId = "1"
    /\ all \in {records \in [Names -> LibraryDeployments \cup ArgsDeployments
                                        \cup PlainDeployments] :
                   \A n \in Names \ {1} : records[n] \in PlainDeployments}
    /\ licenseOption \in {Undefined, "GPL-3.0"}
    /\ forceLicense = TRUE
    /\ fallbackOnSolcInput \in BOOLEAN
    /\ etherscanApiKey \in ApiKeys
    /\ Started

SpecInputs == InitInputs /\ [][Next]_vars

\* a supported chain with records that are submitted, rejected locally, or throw
InitFair ==
    /\ chainId = "1"
    /\ all \in [Names -> {Deployment(BadMetadata, "{input}"),
                          Deployment(Metadata(TRUE, OneTarget, <<>>), ""),
                          Deployment(Metadata(TRUE, OneTarget, <<"MIT", "GPL-3.0", "MIT">>),
                                     "{input}")}]
    /\ licenseOption \in {Undefined, "MIT"}
    /\ forceLicense = FALSE
    /\ fallbackOnSolcInput \in BOOLEAN
    /\ etherscanApiKey = "KEY1"
    /\ Started

\* every await of submitSources resumes: each HTTP call returns (lines 149, 310,
\* 336) and the timer of line 383 fires, so the step that is enabled is taken;
\* a job still pending after MaxPolls polls stands for one that stays pending
SpecFair == InitFair /\ [][Next]_vars /\ WF_vars(Next)

----------------------------------------------------------------------------
(* Properties *)

Last(seq) == seq[Len(seq)]

\* the ways a call of submit ends with logError
ErrorKinds ==
    {"MalformedAbi", "MissingMetadata", "MissingTarget", "MissingLicense", "LicenseMismatch",
     "UnsupportedLicense", "MissingSolcInput", "SubmissionRejected", "NoGuid", "Failed"}

InPipeline == pc \in {"getabi", "posted", "polling"}

\* the call of submit for the name before idx has returned to the loop
Returned == pc \in {"loop", "done"} /\ outcomes # <<>>

\* C1: on a supported chain an error of one of the listed kinds is confined to
\* its contract: the call that logged it returns and the loop goes on to the
\* next name, so that every name before the one the loop is at has had its
\* pipeline run and a run that ends normally has run the pipeline of every
\* name; the loop is only ever cut short by an exception, which is none of
\* these kinds.
C1_ErrorsConfined ==
    HostOf(chainId) # Undefined =>
        /\ (outcomes # <<>> /\ Last(outcomes).outcome \in ErrorKinds) =>
              \/ Returned /\ idx = cur.name + 1 /\ active = {}
              \/ /\ InPipeline
                 /\ outcomes = <<[useSolcInput |-> FALSE, outcome |-> "Failed"]>>
                 /\ cur.useSolcInput
        /\ \A n \in Names : n < idx => started[n] = 1 /\ n \notin active
        /\ pc = "loop" => idx <= NumDeployments + 1
        /\ pc = "done" => \A n \in Names : started[n] = 1
        /\ pc = "thrown" => outcomes = <<>> /\ ~all[cur.name].metadata.parses

\* contract 1 ended in a terminal verification failure, twice, and the
\* pipeline of contract 2 is running
C1_Witness ==
    /\ posts[1] = 2
    /\ InPipeline
    /\ cur.name = 2

\* C2: when a metadata-mode attempt was submitted and its polling ended in
\* failure, and fallbackOnSolcInput is set, the contract is retried exactly once,
\* in full-input mode, and whatever the retry's outcome nothing follows it but
\* the next contract.
C2_SingleFallback ==
    (outcomes # <<>> /\ outcomes[1] = [useSolcInput |-> FALSE, outcome |-> "Failed"]
                     /\ fallbackOnSolcInput) =>
        /\ cur.useSolcInput
        /\ started[cur.name] = 1
        /\ Len(outcomes) <= 2
        /\ Len(outcomes) = 1 => InPipeline /\ idx = cur.name
        /\ Len(outcomes) = 2 => /\ outcomes[2].useSolcInput
                                /\ pc \in {"loop", "done"}
                                /\ idx = cur.name + 1
                                /\ posts[cur.name] <= 2

C2_Witness ==
    /\ fallbackOnSolcInput
    /\ pc = "loop"
    /\ Len(outcomes) = 2
    /\ outcomes[1] = [useSolcInput |-> FALSE, outcome |-> "Failed"]
    /\ outcomes[2] = [useSolcInput |-> TRUE, outcome |-> "Failed"]
    /\ posts[cur.name] = 2

\* the getabi answer that was just handled carries a result that parses to a
\* non-empty ABI
AbiReturned ==
    /\ answer.action = "getabi"
    /\ ~JSONParse(answer.result).threw
    /\ ~Falsy(JSONParse(answer.result).value)

\* the attempt whose getabi answer was just handled ended in Skipped without
\* a POST or a poll
AttemptSkipped ==
    /\ Returned
    /\ Last(outcomes) = [useSolcInput |-> cur.useSolcInput, outcome |-> "Skipped"]
    /\ ~cur.posted
    /\ cur.polls = 0

\* C3 as stated: whenever the getabi result parses to a non-empty ABI the
\* attempt ends in Skipped, with no POST and no poll.
C3_Original == AbiReturned => AttemptSkipped

\* C3, amended: whenever the getabi answer has a status other than '0' and its
\* result parses to a non-empty ABI, the attempt ends in Skipped, with no POST
\* and no poll, whatever the metadata, the license options and the mode.
C3_SkipVerified == (AbiReturned /\ answer.status # "0") => AttemptSkipped

C3_Witness ==
    /\ AbiReturned
    /\ answer.status = "1"
    /\ AttemptSkipped
    /\ cur.useSolcInput
    /\ posts[cur.name] = 1

SupportedChainIds == {"1", "3", "4", "5", "42", "56", "97", "128", "256"}

\* C4: on a chain id outside 1, 3, 4, 5, 42, 56, 97, 128, 256 submitSources
\* logs an error and returns without calling submit for any deployment and
\* without any HTTP request; on each of the nine ids a host is chosen, it never
\* changes, every request goes to it, and for chain id 1 it is
\* http://api.etherscan.io.
C4_UnsupportedChainAborts ==
    /\ chainId \notin SupportedChainIds =>
          /\ pc \in {"start", "done"}
          /\ pc = "done" => netError
          /\ hostsUsed = {}
          /\ \A n \in Names : started[n] = 0 /\ posts[n] = 0
          /\ answer = NoAnswer
    /\ chainId \in SupportedChainIds =>
          /\ ~netError
          /\ pc # "start" => host # Undefined /\ host = HostOf(chainId)
          /\ hostsUsed \subseteq {host}
          /\ pc \notin {"start", "loop"} \/ idx > 1 => hostsUsed = {host}
          /\ chainId = "1" => hostsUsed \subseteq {"http://api.etherscan.io"}
          /\ \A other \in SupportedChainIds \ {chainId} : HostOf(other) # HostOf(chainId)

C4_Witness ==
    /\ chainId = "999"
    /\ pc = "done"
    /\ netError
    /\ hostsUsed = {}

\* the first attempt for the current name ran in metadata mode and ended so
FirstEnded(kinds) ==
    /\ outcomes # <<>>
    /\ ~outcomes[1].useSolcInput
    /\ outcomes[1].outcome \in kinds

\* a full-input re-run of the current name is running or has run
Rerun == cur.useSolcInput /\ (InPipeline \/ Len(outcomes) = 2)

\* the loop has moved on after the single attempt for the name before idx
MovedOn == Returned /\ Len(outcomes) = 1 /\ idx = cur.name + 1 /\ ~cur.useSolcInput

\* C5 as stated: with fallbackOnSolcInput set, a metadata-mode attempt that ends
\* Failed, by a rejected submission as well as by a polling failure, is
\* followed by a full-input re-run.
C5_Original ==
    (fallbackOnSolcInput /\ FirstEnded({"SubmissionRejected", "NoGuid", "Failed"})) => Rerun

\* C5, amended: only a terminal polling failure of a metadata-mode attempt, with
\* fallbackOnSolcInput set, is followed by one full-input re-run of the whole
\* pipeline (starting with a new getabi query); after a rejected submission
\* (non-1 status or empty/missing guid), and after a polling failure without
\* the option, the driver moves on to the next contract.
C5_FallbackOnPollingFailure ==
    /\ (fallbackOnSolcInput /\ FirstEnded({"Failed"})) =>
          /\ Rerun
          /\ Len(outcomes) <= 2
          /\ (Len(outcomes) = 1 /\ pc = "getabi") => cur = Call(idx, TRUE)
    /\ FirstEnded({"SubmissionRejected", "NoGuid"}) => MovedOn /\ posts[cur.name] = 1
    /\ (~fallbackOnSolcInput /\ FirstEnded({"Failed"})) => MovedOn /\ posts[cur.name] = 1

C5_Witness ==
    /\ fallbackOnSolcInput
    /\ FirstEnded({"SubmissionRejected"})
    /\ MovedOn
    /\ idx <= NumDeployments

\* the compilationTarget of deployment n, when its metadata is there and parses
Targets(n) == all[n].metadata.compilationTarget

HasMetadata(n) == all[n].metadata.present /\ all[n].metadata.parses

\* C6 as stated: a contract whose compilationTarget is absent, empty or has more
\* than one entry is never submitted.
C6_Original ==
    \A n \in Names :
        (HasMetadata(n) /\ (~all[n].metadata.hasCompilationTarget \/ Len(Targets(n)) # 1))
            => posts[n] = 0

\* C6, amended: a contract whose compilationTarget is absent or empty is
\* rejected for that contract only (no payload, no POST, the loop goes on);
\* a compilationTarget with more than one entry is not rejected: its first
\* entry is taken as the (filepath, contractName) pair of the submission.
C6_TargetResolution ==
    \A n \in Names :
        HasMetadata(n) =>
            /\ (~all[n].metadata.hasCompilationTarget \/ Len(Targets(n)) = 0) =>
                  /\ posts[n] = 0
                  /\ cur.name = n => ~cur.posted /\ cur.postData = NoPostData /\ pc # "thrown"
                  /\ (cur.name = n /\ Returned) =>
                        /\ Last(outcomes).outcome \in {"MissingTarget", "Skipped", "MalformedAbi"}
                        /\ idx = n + 1
                  /\ (cur.name = n /\ Returned /\ answer.status = "0") =>
                        Last(outcomes).outcome = "MissingTarget"
            /\ (all[n].metadata.hasCompilationTarget /\ Len(Targets(n)) > 1) =>
                  /\ (cur.name = n /\ cur.posted) => cur.postData.contractname = Targets(n)[1]
                  /\ (cur.name = n /\ Returned) => Last(outcomes).outcome # "MissingTarget"

C6_Witness ==
    /\ HasMetadata(1)
    /\ Len(Targets(1)) = 0
    /\ posts[1] = 0
    /\ cur.name = 2
    /\ HasMetadata(2)
    /\ Len(Targets(2)) = 2
    /\ cur.posted
    /\ cur.postData.contractname = <<"A.sol", "Foo">>

\* the 13 license strings the explorer supports, in the order of their codes
SupportedLicenses ==
    <<"None", "UNLICENSED", "MIT", "GPL-2.0", "GPL-3.0", "LGPL-2.1", "LGPL-3.0",
      "BSD-2-Clause", "BSD-3-Clause", "MPL-2.0", "OSL-3.0", "Apache-2.0", "AGPL-3.0">>

\* the license found in the source file of deployment n's compilation target:
\* the first SPDX identifier of that file, "" when it has none
ExtractedLicense(n) ==
    LET spdx == all[n].metadata.sources[Targets(n)[1][1]].content
    IN  IF spdx = <<>> THEN "" ELSE spdx[1]

\* the license resolution as the claim states it, for deployment n: the error,
\* or the effective license with its code
ExpectedLicense(n) ==
    LET extracted == ExtractedLicense(n)
        user == IF licenseOption = Undefined THEN "" ELSE licenseOption
        effective == IF extracted = "" THEN user
                     ELSE IF user # "" /\ user # extracted /\ forceLicense THEN user
                     ELSE extracted
        codes == {c \in 1..13 : SupportedLicenses[c] = effective}
    IN  IF extracted = "" /\ user = "" THEN [error |-> "MissingLicense", code |-> 0]
        ELSE IF extracted # "" /\ user # "" /\ user # extracted /\ ~forceLicense
        THEN [error |-> "LicenseMismatch", code |-> 0]
        ELSE IF codes = {} THEN [error |-> "UnsupportedLicense", code |-> 0]
        ELSE [error |-> "", code |-> CHOOSE c \in codes : TRUE]

\* deployment n reaches the license resolution whenever it is not skipped
ReachesLicense(n) ==
    /\ HasMetadata(n)
    /\ all[n].metadata.hasCompilationTarget
    /\ Len(Targets(n)) > 0
    /\ Targets(n)[1][1] # "" /\ Targets(n)[1][2] # ""

LicenseErrors == {"MissingLicense", "LicenseMismatch", "UnsupportedLicense"}

\* C7: for every extracted license, user license and forceOverride the
\* pipeline resolves the license as stated (missing, mismatch, user wins when
\* forced or when nothing is extracted, else the extracted one, unsupported
\* outside the 13-entry table, else the table's code), and a resolution error
\* means no submission for that contract.
C7_LicenseResolution ==
    \A n \in Names :
        (ReachesLicense(n) /\ (posts[n] > 0 \/ cur.name = n)) =>
            LET expected == ExpectedLicense(n)
            IN  /\ posts[n] > 0 => expected.error = ""
                /\ (cur.name = n /\ cur.posted) => cur.postData.licenseType = expected.code
                /\ (cur.name = n /\ Returned /\ Last(outcomes).outcome \in LicenseErrors) =>
                      Last(outcomes).outcome = expected.error
                /\ (cur.name = n /\ Returned /\ answer.action = "getabi"
                                 /\ answer.status = "0") =>
                      Last(outcomes).outcome =
                          IF expected.error # "" THEN expected.error ELSE "MissingSolcInput"

C7_Witness ==
    /\ ReachesLicense(1)
    /\ ExtractedLicense(1) = "MIT"
    /\ licenseOption = "GPL-3.0"
    /\ forceLicense
    /\ cur.name = 1
    /\ cur.posted
    /\ cur.postData.licenseType = 5

\* C8: a status poll is issued only after the attempt's POST was answered with
\* status '1' and a non-empty guid, and it carries that guid; a POST answered
\* otherwise ends the attempt as a failure of that contract with no poll, and
\* the loop goes on.
C8_PollAfterAcceptedPost ==
    /\ answer.action = "verifysourcecode" =>
          IF answer.status = "1" /\ answer.result \notin {"", Undefined}
          THEN pc = "polling" /\ cur.guid = answer.result /\ cur.polls = 0
          ELSE /\ Returned
               /\ Last(outcomes).outcome \in {"SubmissionRejected", "NoGuid"}
               /\ active = {}
               /\ cur.polls = 0
               /\ cur.pollGuid = Undefined
               /\ idx = cur.name + 1
    /\ (pc = "polling" \/ cur.polls > 0) =>
          /\ cur.posted
          /\ cur.guid \notin {"", Undefined}
          /\ cur.polls > 0 => cur.pollGuid = cur.guid
    /\ answer.action = "checkverifystatus" => posts[cur.name] > 0

C8_Witness ==
    /\ pc = "polling"
    /\ cur.polls = 2
    /\ cur.guid = "def456"
    /\ cur.pollGuid = "def456"

\* C9: a status poll answered with status '1' is a success; otherwise one whose
\* result is exactly 'Pending in queue' is not terminal and is followed by a
\* new poll; any other answer is a failure. So a job that answers Pending k
\* times and then status '1' is verified after exactly k + 1 polls, with no
\* fallback.
C9_PollClassification ==
    /\ answer.action = "checkverifystatus" =>
          CASE answer.status = "1" ->
                  /\ Returned
                  /\ Last(outcomes).outcome = "Verified"
                  /\ cur.result = "success"
            [] answer.status # "1" /\ answer.result = "Pending in queue" ->
                  /\ pc = "polling"
                  /\ cur.result = ""
                  /\ outcomes = <<>> \/ Last(outcomes).outcome = "Failed"
            [] OTHER ->
                  /\ outcomes # <<>>
                  /\ Last(outcomes).outcome = "Failed"
                  /\ Returned => cur.result = "failure"
    /\ pc = "polling" => cur.polls = cur.pendings
    /\ (Returned /\ Last(outcomes).outcome = "Verified") =>
          /\ cur.polls = cur.pendings + 1
          /\ Len(outcomes) = IF cur.useSolcInput THEN 2 ELSE 1
          /\ idx = cur.name + 1

C9_Witness ==
    /\ Returned
    /\ outcomes = <<[useSolcInput |-> FALSE, outcome |-> "Verified"]>>
    /\ cur.pendings = 2
    /\ cur.polls = 3
    /\ answer = Answer("checkverifystatus", [status |-> "1", result |-> "Pass - Verified"])

\* C10: contracts are processed one at a time: at most one call of submit is
\* running, it is the call for the name the loop is at, every earlier name's
\* call was started once and has returned, no later name has been started or
\* sent anything, and the loop starts each name exactly once.
C10_OneAtATime ==
    /\ \A n \in Names : started[n] <= 1
    /\ Cardinality(active) <= 1
    /\ InPipeline => active = {idx} /\ cur.name = idx /\ started[idx] = 1
    /\ pc \in {"start", "loop", "done"} => active = {}
    /\ \A n \in Names : n < idx => started[n] = 1 /\ n \notin active
    /\ \A n \in Names : n > idx => started[n] = 0 /\ posts[n] = 0
    /\ \A n \in Names : posts[n] > 0 => started[n] = 1
    /\ (pc = "done" /\ ~netError) => \A n \in Names : started[n] = 1

C10_Witness ==
    /\ pc = "polling"
    /\ cur.name = 2
    /\ cur.useSolcInput
    /\ active = {2}
    /\ posts[1] = 2
    /\ posts[2] = 2

\* a is the answer to a status poll and says the job is still pending
Pending(a) ==
    a.action = "checkverifystatus" /\ a.status # "1" /\ a.result = "Pending in queue"

\* C11: the polling loop ends only on a terminal answer: a poll answered
\* 'Pending in queue' (with a status other than '1') leaves the attempt polling
\* the same job, with no fallback, no new POST and no other contract started;
\* the attempt leaves the polling loop only on an answer that is not pending;
\* and after n pending answers an (n+1)-th poll is made, for every n within
\* the bound.
C11_PollUntilTerminal ==
    /\ [][(pc = "polling" /\ Pending(answer')) =>
             /\ pc' = "polling"
             /\ cur' = [cur EXCEPT !.polls = @ + 1, !.pendings = @ + 1,
                                   !.pollGuid = cur.guid, !.result = ""]
             /\ UNCHANGED <<idx, outcomes, posts, started, active>>]_vars
    /\ [][(pc = "polling" /\ pc' # "polling") =>
             /\ answer'.action = "checkverifystatus"
             /\ ~Pending(answer')]_vars
    /\ \A n \in 0..(MaxPolls - 1) :
          (pc = "polling" /\ cur.pendings = n /\ cur.polls = n)
              ~> (answer.action = "checkverifystatus" /\ (cur.polls = n + 1 \/ cur.polls = 0))

C11_Witness ==
    /\ pc = "polling"
    /\ cur.pendings = MaxPolls
    /\ cur.polls = MaxPolls
    /\ Pending(answer)
    /\ outcomes = <<>>
    /\ posts[cur.name] = 1

\* the ways an attempt is abandoned before the POST
LocalRejections ==
    {"MalformedAbi", "MissingMetadata", "MissingTarget", "MissingLicense", "LicenseMismatch",
     "UnsupportedLicense", "MissingSolcInput"}

\* C12: an attempt abandoned before submission (malformed getabi result,
\* absent metadata, unresolvable compilation target, license resolver error,
\* or in full-input mode a missing solc input) has sent no POST and no status
\* poll, is the last attempt for its contract (no fallback re-run follows it,
\* with fallbackOnSolcInput set or not), and the loop has gone on to the next
\* name; absent metadata rejects the contract in both modes.
C12_LocalRejection ==
    /\ \A i \in 1..Len(outcomes) :
          outcomes[i].outcome \in LocalRejections =>
              /\ i = Len(outcomes)
              /\ Returned
              /\ outcomes[i].useSolcInput = cur.useSolcInput
              /\ ~cur.posted
              /\ cur.postData = NoPostData
              /\ cur.guid = Undefined
              /\ cur.polls = 0
              /\ answer.action = "getabi"
              /\ posts[cur.name] = i - 1
              /\ i = IF cur.useSolcInput THEN 2 ELSE 1
              /\ active = {}
              /\ idx = cur.name + 1
              /\ pc = "done" => idx = NumDeployments + 1
              /\ outcomes[i].outcome = "MissingSolcInput" => cur.useSolcInput
    /\ \A n \in Names : \A useSolcInput \in BOOLEAN :
          ~all[n].metadata.present =>
              BuildPayload(all[n], useSolcInput).error = "MissingMetadata"

\* with the fallback enabled, the full-input re-run of contract 1 was abandoned
\* for its missing solc input after the one POST of the metadata-mode attempt,
\* and the loop is at contract 2
C12_Witness ==
    /\ fallbackOnSolcInput
    /\ pc = "loop"
    /\ idx = 2
    /\ outcomes = <<[useSolcInput |-> FALSE, outcome |-> "Failed"],
                    [useSolcInput |-> TRUE, outcome |-> "MissingSolcInput"]>>
    /\ posts[1] = 1
    /\ ~cur.posted

\* C13: getLicenseType maps the 13 supported license strings one to one onto
\* 1..13, in the order None, UNLICENSED, MIT, GPL-2.0, GPL-3.0, LGPL-2.1,
\* LGPL-3.0, BSD-2-Clause, BSD-3-Clause, MPL-2.0, OSL-3.0, Apache-2.0,
\* AGPL-3.0; every other string has no code, and a contract whose effective
\* license is such a string is rejected as unsupported and never submitted.
C13_LicenseTable ==
    /\ \A c \in 1..13 : getLicenseType(SupportedLicenses[c]) = c
    /\ \A a, b \in LicenseStrings :
          (getLicenseType(a) # 0 /\ getLicenseType(a) = getLicenseType(b)) => a = b
    /\ \A a \in LicenseStrings \cup {Undefined} :
          IF \E c \in 1..13 : SupportedLicenses[c] = a
          THEN getLicenseType(a) \in 1..13
          ELSE getLicenseType(a) = 0
    /\ \A n \in Names :
          (ReachesLicense(n) /\ cur.name = n) =>
              /\ cur.posted =>
                    /\ cur.postData.licenseType \in 1..13
                    /\ SupportedLicenses[cur.postData.licenseType]
                           \in {licenseOption, ExtractedLicense(n)}
                    /\ cur.postData.licenseType = ExpectedLicense(n).code
              /\ (Returned /\ Last(outcomes).outcome = "UnsupportedLicense") =>
                    /\ ExpectedLicense(n).error = "UnsupportedLicense"
                    /\ posts[n] = 0
              /\ (Returned /\ answer.status = "0"
                           /\ ExpectedLicense(n).error = "UnsupportedLicense") =>
                    /\ Last(outcomes).outcome = "UnsupportedLicense"
                    /\ posts[n] = 0

\* contract 1, whose source says WTFPL, was not submitted, and contract 2,
\* whose source says Apache-2.0, is submitted with code 12
C13_Witness ==
    /\ licenseOption = Undefined
    /\ ExtractedLicense(1) = "WTFPL"
    /\ answer.status = "0"
    /\ posts[1] = 0
    /\ cur.name = 2
    /\ ExtractedLicense(2) = "Apache-2.0"
    /\ cur.posted
    /\ cur.postData.licenseType = 12

\* the names of a deployment's libraries
LibraryNames(d) == {d.libraries[i][1] : i \in 1..Len(d.libraries)}

\* settings.libraries of a settings object, {} when it has none
LibrariesOf(settings) ==
    IF "libraries" \in DOMAIN settings THEN settings["libraries"] ELSE EmptyObject

\* the libraries under contract path P, {} when there are none
Under(settingsLibraries, P) ==
    IF P \in DOMAIN settingsLibraries THEN settingsLibraries[P] ELSE EmptyObject

\* C14: in both modes, when the deployment has libraries L and the contract
\* path is P, the submitted settings.libraries[P][n] is L[n] for every library
\* name n, whether or not settings.libraries or settings.libraries[P] existed
\* before; what was under other paths, and under P with other names, is kept,
\* as is every other settings key; merging the same libraries again changes
\* nothing; without deployment libraries the settings are left as they were.
C14_LibraryMerging ==
    cur.posted =>
        LET d == all[cur.name]
            P == cur.postData.contractname
            before == CompilerInput(d, cur.useSolcInput).settings
            after == cur.postData.sourceCode.settings
        IN  IF ~d.hasLibraries THEN after = before
            ELSE /\ DOMAIN after = DOMAIN before \cup {"libraries"}
                 /\ \A k \in DOMAIN before \ {"libraries"} : after[k] = before[k]
                 /\ DOMAIN LibrariesOf(after) =
                        DOMAIN LibrariesOf(before) \cup (IF d.libraries = <<>> THEN {} ELSE {P})
                 /\ \A i \in 1..Len(d.libraries) :
                        LibrariesOf(after)[P][d.libraries[i][1]] = d.libraries[i][2]
                 /\ \A k \in DOMAIN LibrariesOf(before) \ {P} :
                        LibrariesOf(after)[k] = LibrariesOf(before)[k]
                 /\ DOMAIN Under(LibrariesOf(after), P) =
                        DOMAIN Under(LibrariesOf(before), P) \cup LibraryNames(d)
                 /\ \A m \in DOMAIN Under(LibrariesOf(before), P) \ LibraryNames(d) :
                        LibrariesOf(after)[P][m] = LibrariesOf(before)[P][m]
                 /\ MergeLibraries(after, d.hasLibraries, d.libraries, P) = after

\* a full-input attempt submits settings.libraries where L1 of A.sol:Foo, which
\* the file had at another address, is the deployment's, and L3 of A.sol:Foo
\* and L9 of B.sol:Bar are the file's
C14_Witness ==
    /\ cur.posted
    /\ cur.useSolcInput
    /\ all[cur.name].libraries = << <<"L1", "0xaaa">>, <<"L2", "0xbbb">> >>
    /\ all[cur.name].solcInput = "{input,libraries:{A.sol:Foo,B.sol:Bar}}"
    /\ cur.postData.sourceCode.settings["libraries"] =
          (<<"A.sol", "Foo">> :> [L1 |-> "0xaaa", L2 |-> "0xbbb", L3 |-> "0xccc"])
              @@ (<<"B.sol", "Bar">> :> [L9 |-> "0x999"])

\* C15: in metadata mode the submitted compiler input has no compilationTarget
\* key in settings, has every other settings key of the metadata (with its
\* value, but for libraries, which the deployment's libraries are merged
\* into) and no further key but libraries, has exactly the source paths of
\* metadata.sources, each with its content and nothing else, and has the
\* language of the metadata.
C15_MetadataInput ==
    (cur.posted /\ ~cur.useSolcInput) =>
        LET metadata == all[cur.name].metadata
            solcInput == cur.postData.sourceCode
        IN  /\ "compilationTarget" \in DOMAIN metadata.settings
            /\ "compilationTarget" \notin DOMAIN solcInput.settings
            /\ DOMAIN metadata.settings \ {"compilationTarget"} \subseteq DOMAIN solcInput.settings
            /\ DOMAIN solcInput.settings \ {"libraries"} \subseteq DOMAIN metadata.settings
            /\ \A k \in DOMAIN metadata.settings \ {"compilationTarget", "libraries"} :
                   solcInput.settings[k] = metadata.settings[k]
            /\ DOMAIN solcInput.sources = DOMAIN metadata.sources
            /\ \A sourcePath \in DOMAIN metadata.sources :
                   /\ DOMAIN solcInput.sources[sourcePath] = {"content"}
                   /\ DOMAIN metadata.sources[sourcePath] # {"content"}
                   /\ solcInput.sources[sourcePath].content = metadata.sources[sourcePath].content
            /\ solcInput.language = metadata.language

\* a contract written in Yul, with no libraries, is submitted in metadata mode
\* with the two settings that are not the compilation target and both sources
C15_Witness ==
    /\ cur.posted
    /\ ~cur.useSolcInput
    /\ all[cur.name].metadata.language = "Yul"
    /\ cur.postData.sourceCode =
          [language |-> "Yul",
           settings |-> [optimizer |-> "runs:200", evmVersion |-> "istanbul"],
           sources |-> [f \in {"A.sol", "B.sol"} |->
                          [content |-> IF f = "A.sol" THEN <<"MIT">> ELSE <<"GPL-3.0">>]]]

\* the payload copy as the claim states it, from the deployment record and
\* the options other than the API key
ExpectedCopy(n) ==
    LET d == all[n]
    IN  [apikey |-> "XXXXXX",
         contractaddress |-> d.address,
         sourceCode |-> "...",
         contractname |-> Targets(n)[1],
         compilerversion |-> <<"v", d.metadata.compilerVersion>>,
         constructorArguements |->
            IF d.hasArgs /\ \E i \in 1..Len(d.abi) : d.abi[i].type = "constructor"
            THEN [defined |-> TRUE, threw |-> FALSE,
                  value |-> [i \in 1..Len(d.args) |->
                               <<FindConstructor(d.abi).inputs[i], d.args[i]>>]]
            ELSE NoArguements,
         licenseType |-> ExpectedLicense(n).code]

\* C16: the copy of the payload logged on a terminal polling failure has the
\* fixed mask as its apikey and an elision as its sourceCode, and is
\* determined by the deployment record and the options other than the API
\* key, so that it is the same in two runs that differ only in the key; one
\* copy is logged per terminal polling failure and none otherwise.
C16_RedactedCopy ==
    /\ Len(logged) = Cardinality({i \in 1..Len(outcomes) : outcomes[i].outcome = "Failed"})
    /\ \A i \in 1..Len(logged) :
          /\ logged[i].apikey = "XXXXXX"
          /\ logged[i].sourceCode = "..."
          /\ logged[i] = ExpectedCopy(cur.name)
    /\ cur.posted => cur.postData.apikey = etherscanApiKey

\* with a key configured, both attempts for a contract with constructor
\* arguments ended in a terminal polling failure, and each logged the copy
C16_Witness ==
    /\ etherscanApiKey = "KEY2"
    /\ Len(logged) = 2
    /\ cur.postData.apikey = "KEY2"
    /\ logged[2].apikey = "XXXXXX"
    /\ logged[2].constructorArguements.value = << <<"uint256", "42">>, <<"address", "0xdead">> >>

\* C17: each deployment receives at most two verifysourcecode POSTs, and at
\* most one when fallbackOnSolcInput is false; a POST is the second one of its
\* deployment only when the first attempt ran in metadata mode and ended in a
\* terminal polling failure; an attempt that ended otherwise (Verified,
\* Skipped, any rejection) and a full-input attempt are followed by no other
\* attempt for the deployment.
C17_RetryBound ==
    /\ [](\A n \in Names :
            /\ posts[n] <= 2
            /\ ~fallbackOnSolcInput => posts[n] <= 1
            /\ posts[n] <= started[n] * 2)
    /\ [](\A i \in 1..Len(outcomes) :
            /\ i < Len(outcomes) =>
                  outcomes[i] = [useSolcInput |-> FALSE, outcome |-> "Failed"]
            /\ outcomes[i].useSolcInput => i = 2 /\ Len(outcomes) = 2
            /\ (i = Len(outcomes) /\ InPipeline) =>
                  /\ outcomes[i] = [useSolcInput |-> FALSE, outcome |-> "Failed"]
                  /\ cur.useSolcInput)
    /\ [][\A n \in Names :
            posts'[n] # posts[n] =>
                /\ posts'[n] = posts[n] + 1
                /\ n = cur.name
                /\ pc = "getabi" /\ pc' = "posted"
                /\ posts[n] = IF cur.useSolcInput THEN 1 ELSE 0
                /\ posts[n] = 1 =>
                      /\ fallbackOnSolcInput
                      /\ outcomes = <<[useSolcInput |-> FALSE, outcome |-> "Failed"]>>
                      /\ Len(logged) = 1]_vars

\* the run is over and every deployment received two POSTs
C17_Witness ==
    /\ pc = "done"
    /\ \A n \in Names : posts[n] = 2
    /\ fallbackOnSolcInput

\* submitSources has returned after calling submit for every name
Finished == pc = "done" /\ \A n \in Names : started[n] = 1

\* the job of the running attempt has answered pending to every poll
StaysPending == pc = "polling" /\ cur.pendings = MaxPolls

\* C18: on a supported chain, with every HTTP call answered, the run goes on
\* until submitSources has returned with the pipeline run for every
\* deployment name: it never stops before that, unless a job stays pending.
C18_Termination ==
    HostOf(chainId) # Undefined => (Finished \/ StaysPending \/ ENABLED Next)

\* the getabi answer of a fallback re-run was just handled
RerunChecked ==
    /\ cur.useSolcInput
    /\ answer.action = "getabi"
    /\ outcomes # <<>>
    /\ outcomes[1] = [useSolcInput |-> FALSE, outcome |-> "Failed"]

\* the re-run ended in Skipped and the deployment has received one POST
RerunSkipped ==
    /\ AttemptSkipped
    /\ Len(outcomes) = 2
    /\ posts[cur.name] = 1

\* C19 as stated: whenever the getabi query of the re-run returns a non-empty
\* parseable ABI, the re-run ends in Skipped with no second POST.
C19_Original == (RerunChecked /\ AbiReturned) => RerunSkipped

\* C19, amended: the fallback re-run starts as a fresh call of submit in
\* full-input mode whose first request is a getabi query; if that query is
\* answered with a status other than '0' and a non-empty parseable ABI, the
\* re-run ends in Skipped with no second POST; otherwise the re-run goes
\* through the local checks again: it is abandoned without a second POST for
\* a malformed getabi result or a missing solc input, the license verdict
\* being the one of the first attempt, and else the second POST is sent.
C19_RerunFromCheck ==
    /\ [][(pc = "polling" /\ pc' = "getabi") =>
             /\ cur' = Call(cur.name, TRUE)
             /\ outcomes' = <<[useSolcInput |-> FALSE, outcome |-> "Failed"]>>
             /\ answer'.action = "checkverifystatus"
             /\ UNCHANGED <<idx, posts, started, active>>]_vars
    /\ [][(pc = "getabi" /\ cur.useSolcInput) =>
             /\ answer'.action = "getabi"
             /\ posts[cur.name] = 1
             /\ cur = Call(idx, TRUE)]_vars
    /\ []((RerunChecked /\ AbiReturned /\ answer.status # "0") => RerunSkipped)
    /\ []((RerunChecked /\ ~JSONParse(answer.result).threw /\ answer.status # "0"
                        /\ Falsy(JSONParse(answer.result).value))
            \/ (RerunChecked /\ answer.status = "0") =>
              IF all[cur.name].solcInput = ""
              THEN /\ Returned
                   /\ outcomes[2] = [useSolcInput |-> TRUE, outcome |-> "MissingSolcInput"]
                   /\ posts[cur.name] = 1
              ELSE /\ pc = "posted"
                   /\ posts[cur.name] = 2
                   /\ cur.postData.licenseType = ExpectedLicense(cur.name).code)
    /\ []((RerunChecked /\ answer.status # "0" /\ JSONParse(answer.result).threw) =>
              /\ Returned
              /\ outcomes[2] = [useSolcInput |-> TRUE, outcome |-> "MalformedAbi"]
              /\ posts[cur.name] = 1)
    /\ [](RerunChecked =>
              /\ ReachesLicense(cur.name)
              /\ ExpectedLicense(cur.name).error = ""
              /\ Returned => outcomes[2].outcome \notin LicenseErrors \cup {"MissingTarget"})

\* the re-run of contract 2 found it verified by its own getabi query and
\* ended in Skipped after the one POST of the first attempt
C19_Witness ==
    /\ RerunChecked
    /\ answer.status = "1"
    /\ RerunSkipped
    /\ cur.name = 2
    /\ outcomes[2] = [useSolcInput |-> TRUE, outcome |-> "Skipped"]

\* the fields of the POST other than apikey and sourceCode
SharedFields ==
    {"contractaddress", "contractname", "compilerversion", "constructorArguements",
     "licenseType"}

\* C20: the POST of the metadata-mode attempt and the POST of its full-input
\* re-run carry the same contractaddress, contractname, compilerversion,
\* constructorArguements and licenseType, each being in both modes the value
\* that follows from the deployment record and the license options; and no
\* step changes the deployment records.
C20_SameSubmission ==
    /\ [](cur.posted =>
            \A field \in SharedFields :
                cur.postData[field] = ExpectedCopy(cur.name)[field])
    /\ []((cur.posted /\ cur.useSolcInput) =>
            /\ Len(logged) >= 1
            /\ \A field \in SharedFields : cur.postData[field] = logged[1][field])
    /\ [][(pc = "getabi" /\ pc' = "posted" /\ cur.useSolcInput) =>
             \A field \in SharedFields : cur'.postData[field] = logged[1][field]]_vars
    /\ [][all' = all]_vars

\* the full-input re-run of a contract with two constructor arguments is
\* submitted with the whole solc input, the first attempt having logged the
\* same arguments
C20_Witness ==
    /\ cur.posted
    /\ cur.useSolcInput
    /\ posts[cur.name] = 2
    /\ Len(logged) = 1
    /\ licenseOption = "GPL-3.0"
    /\ logged[1].licenseType = 5
    /\ cur.postData.constructorArguements =
          [defined |-> TRUE, threw |-> FALSE,
           value |-> << <<"uint256", "42">>, <<"address", "0xdead">> >>]
    /\ "C.sol" \in DOMAIN cur.postData.sourceCode.sources

====
